---- MODULE Spec2Model ----
(***************************************************************************)
(* A model of the Black-Litterman allocator of src/model.py: the class     *)
(* BlackLitterman, its four output fields and the pipeline of allocate().  *)
(*                                                                         *)
(* Numbers are exact rationals <<n, d>> (d > 0, lowest terms) extended     *)
(* with the three IEEE special values numpy produces on a division by      *)
(* zero: <<1, 0>> = +inf, <<-1, 0>> = -inf, <<0, 0>> = nan.  Rounding is    *)
(* not modelled.  An array is a record [r, c, a]: its shape and its rows.  *)
(***************************************************************************)
EXTENDS Integers, Sequences, FiniteSets, TLC

\* ------------------------------------------------------------------ bounds
\* The largest asset universe and the largest number of views / pick
\* specifications / confidences of a call.
MaxAssets == 2
MaxViews == 2

\* ----------------------------------------------------------------- numbers
Abs(n) == IF n < 0 THEN -n ELSE n

Sign(n) == IF n < 0 THEN -1 ELSE IF n > 0 THEN 1 ELSE 0

RECURSIVE GCD(_, _)
GCD(a, b) == IF b = 0 THEN a ELSE GCD(b, a % b)

\* n/d in lowest terms with a positive denominator (d # 0).
Norm(n, d) ==
    LET g == GCD(Abs(n), Abs(d))
    IN  IF d < 0 THEN <<(-n) \div g, (-d) \div g>> ELSE <<n \div g, d \div g>>

Zero == <<0, 1>>
One == <<1, 1>>
NaN == <<0, 0>>
Inf(s) == <<s, 0>>

IsFinite(x) == x[2] # 0
IsNaN(x) == x = NaN
IsZero(x) == x = Zero

\* The sign of a number that is not nan.
SignOf(x) == Sign(x[1])

RNeg(x) == <<-x[1], x[2]>>

\* IEEE addition: inf + (-inf) = nan, inf + finite = inf.
RAdd(x, y) ==
    IF IsFinite(x) /\ IsFinite(y)
    THEN LET g == GCD(x[2], y[2])
         IN  Norm(x[1] * (y[2] \div g) + y[1] * (x[2] \div g), (x[2] \div g) * y[2])
    ELSE IF IsNaN(x) \/ IsNaN(y) THEN NaN
    ELSE IF ~IsFinite(x) /\ ~IsFinite(y) THEN (IF x = y THEN x ELSE NaN)
    ELSE IF IsFinite(x) THEN y ELSE x

RSub(x, y) == RAdd(x, RNeg(y))

\* IEEE multiplication: inf * 0 = nan.
RMul(x, y) ==
    IF IsFinite(x) /\ IsFinite(y)
    THEN LET g == GCD(Abs(x[1]), y[2])
             h == GCD(Abs(y[1]), x[2])
         IN  Norm((x[1] \div g) * (y[1] \div h), (x[2] \div h) * (y[2] \div g))
    ELSE IF IsNaN(x) \/ IsNaN(y) THEN NaN
    ELSE IF IsZero(x) \/ IsZero(y) THEN NaN
    ELSE Inf(SignOf(x) * SignOf(y))

\* numpy's true division: x / 0 is +-inf (nan for 0 / 0) with a warning, never
\* an exception; finite / inf = 0.
RDiv(x, y) ==
    IF IsNaN(x) \/ IsNaN(y) THEN NaN
    ELSE IF IsFinite(y) /\ ~IsZero(y)
         THEN (IF IsFinite(x) THEN RMul(x, Norm(y[2], y[1]))
               ELSE Inf(SignOf(x) * SignOf(y)))
    ELSE IF IsZero(y)
         THEN (IF IsZero(x) THEN NaN ELSE Inf(SignOf(x)))
    ELSE (IF IsFinite(x) THEN Zero ELSE NaN)

\* x < 0 as Python compares floats (nan < 0 is False).
RLtZero(x) == ~IsNaN(x) /\ x[1] < 0

\* ------------------------------------------------------------------ arrays
\* A sequence with every entry evaluated.
Strict(s) == SubSeq(s, 1, Len(s))

Mat(r, c, f(_, _)) ==
    [r |-> r, c |-> c, a |-> Strict([i \in 1..r |-> Strict([j \in 1..c |-> f(i, j)])])]

NoArray == [r |-> 0, c |-> 0, a |-> <<>>]

At(A, i, j) == A.a[i][j]

Zeros(r, c) == LET z(i, j) == Zero IN Mat(r, c, z)

Eye(n) == LET e(i, j) == IF i = j THEN One ELSE Zero IN Mat(n, n, e)

AllFinite(A) == \A i \in 1..A.r : \A j \in 1..A.c : IsFinite(At(A, i, j))

Transpose(A) == LET t(i, j) == At(A, j, i) IN Mat(A.c, A.r, t)

MAdd(A, B) == LET s(i, j) == RAdd(At(A, i, j), At(B, i, j)) IN Mat(A.r, A.c, s)

MSub(A, B) == LET s(i, j) == RSub(At(A, i, j), At(B, i, j)) IN Mat(A.r, A.c, s)

Scale(t, A) == LET s(i, j) == RMul(t, At(A, i, j)) IN Mat(A.r, A.c, s)

\* The sum of the entries of a sequence, added left to right from 0.
RECURSIVE SumSeq(_)
SumSeq(s) == IF Len(s) = 0 THEN Zero ELSE RAdd(SumSeq(SubSeq(s, 1, Len(s) - 1)), s[Len(s)])

\* The sum of f(1) .. f(n).
SumTo(n, f(_)) == SumSeq([k \in 1..n |-> f(k)])

\* ndarray.dot for two-dimensional arrays of matching inner dimension.
Dot(A, B) ==
    LET cell(i, j) == LET term(k) == RMul(At(A, i, k), At(B, k, j))
                      IN  SumTo(A.c, term)
    IN  Mat(A.r, B.c, cell)

\* np.reshape to (r, c), row-major, of an array with r * c entries.
Reshape(A, r, c) ==
    LET cell(i, j) == LET k == (i - 1) * c + (j - 1)
                      IN  At(A, (k \div A.c) + 1, (k % A.c) + 1)
    IN  Mat(r, c, cell)

\* np.diag(np.diag(A)): the diagonal of A as a diagonal array, every
\* off-diagonal entry zero.
DiagOfDiag(A) ==
    LET n == IF A.r < A.c THEN A.r ELSE A.c
        d(i, j) == IF i = j THEN At(A, i, i) ELSE Zero
    IN  Mat(n, n, d)

\* A without row i and column j.
Minor(A, i, j) ==
    LET m(p, q) == At(A, IF p < i THEN p ELSE p + 1, IF q < j THEN q ELSE q + 1)
    IN  Mat(A.r - 1, A.c - 1, m)

RECURSIVE Det(_)
Det(A) ==
    IF A.r = 0 THEN One
    ELSE LET term(j) == RMul(IF j % 2 = 1 THEN At(A, 1, j) ELSE RNeg(At(A, 1, j)),
                             Det(Minor(A, 1, j)))
         IN  SumTo(A.c, term)

\* The exact inverse of a square array of finite entries and nonzero determinant.
Inverse(A) ==
    LET d == Det(A)
        cell(i, j) == RDiv(IF (i + j) % 2 = 0 THEN Det(Minor(A, j, i))
                           ELSE RNeg(Det(Minor(A, j, i))), d)
    IN  Mat(A.r, A.r, cell)

AllNaN(r, c) == LET n(i, j) == NaN IN Mat(r, c, n)

\* numpy.linalg.inv: what a call can do on a square array.  Each outcome is
\* [raised, val].  A finite array is inverted exactly, and LinAlgError is raised
\* when it is singular; a 1x1 array is 1/x in IEEE arithmetic (1/inf = 0); for
\* a larger array holding inf or nan LAPACK either meets an exact zero pivot
\* (LinAlgError) or returns without error an array that IEEE arithmetic has
\* filled with nan, depending on the array and the build.
InvOutcomes(A) ==
    IF AllFinite(A)
    THEN (IF IsZero(Det(A)) THEN {[raised |-> TRUE, val |-> NoArray]}
          ELSE {[raised |-> FALSE, val |-> Inverse(A)]})
    ELSE IF A.r = 1
    THEN {[raised |-> FALSE, val |-> LET c(i, j) == RDiv(One, At(A, 1, 1)) IN Mat(1, 1, c)]}
    ELSE {[raised |-> TRUE, val |-> NoArray], [raised |-> FALSE, val |-> AllNaN(A.r, A.r)]}

\* ---------------------------------------------------------- the pipeline
\* _error_checks without its loop over the confidences (lines 218-220).
ErrorChecksWithoutSignCheck(investor_views, pick_list, omega_method, view_confidences) ==
    IF Len(investor_views) # Len(pick_list) THEN "views/pick list"
    ELSE IF omega_method \notin {"prior_variance", "user_confidences"} THEN "omega method"
    ELSE IF omega_method = "user_confidences"
    THEN (IF ~view_confidences.given THEN "confidences required"
          ELSE IF Len(investor_views) # Len(view_confidences.val) THEN "views/confidences"
          ELSE "ok")
    ELSE "ok"

\* _error_checks with `confidence <= 0` for `confidence < 0` on line 219.
ErrorChecksRejectingZero(investor_views, pick_list, omega_method, view_confidences) ==
    IF Len(investor_views) # Len(pick_list) THEN "views/pick list"
    ELSE IF omega_method \notin {"prior_variance", "user_confidences"} THEN "omega method"
    ELSE IF omega_method = "user_confidences"
    THEN (IF ~view_confidences.given THEN "confidences required"
          ELSE IF Len(investor_views) # Len(view_confidences.val) THEN "views/confidences"
          ELSE IF \E k \in 1..Len(view_confidences.val) :
                     RLtZero(view_confidences.val[k]) \/ IsZero(view_confidences.val[k])
               THEN "negative confidence"
          ELSE "ok")
    ELSE "ok"

\* _error_checks: the ValueError it raises, as its message's subject, or "ok".
ErrorChecks(investor_views, pick_list, omega_method, view_confidences) ==
    IF Len(investor_views) # Len(pick_list) THEN "views/pick list"
    ELSE IF omega_method \notin {"prior_variance", "user_confidences"} THEN "omega method"
    ELSE IF omega_method = "user_confidences"
    THEN (IF ~view_confidences.given THEN "confidences required"
          ELSE IF Len(investor_views) # Len(view_confidences.val) THEN "views/confidences"
          ELSE IF \E k \in 1..Len(view_confidences.val) : RLtZero(view_confidences.val[k])
               THEN "negative confidence"
          ELSE "ok")
    ELSE "ok"

\* A list of n numbers as the (n, 1) array _pre_process_inputs reshapes it to.
Column(s) == LET c(i, j) == s[i] IN Mat(Len(s), 1, c)

\* _calculate_implied_equilibrium_returns: risk_aversion * covariance.dot(w).
ImpliedEquilibriumReturns(risk_aversion, covariance, market_capitalised_weights) ==
    Scale(risk_aversion, Dot(covariance, market_capitalised_weights))

\* The position of a label in a list of column labels that holds it.
IndexOf(columns, name) == CHOOSE j \in 1..Len(columns) : columns[j] = name

Labels(columns) == {columns[j] : j \in 1..Len(columns)}

RECURSIVE SetToSeq(_)
SetToSeq(S) == IF S = {} THEN <<>> ELSE LET e == CHOOSE e \in S : TRUE
                                        IN  <<e>> \o SetToSeq(S \ {e})

\* The labels the pick specifications name that are no column of the frame.
UnknownLabels(pick_list, asset_names) ==
    UNION {DOMAIN pick_list[k] : k \in 1..Len(pick_list)} \ Labels(asset_names)

\* _create_pick_matrix with `pick_matrix.loc[:, assets] = values` on line 140:
\* every row holds the last pick specification.
CreatePickMatrixInEveryRow(num_views, num_assets, pick_list, asset_names, enlarges) ==
    LET unknown == UnknownLabels(pick_list, asset_names)
        columns == SubSeq(asset_names, 1, num_assets) \o SetToSeq(unknown)
        last == pick_list[Len(pick_list)]
        cell(k, j) == IF columns[j] \in DOMAIN last THEN last[columns[j]]
                      ELSE IF j <= num_assets THEN Zero ELSE NaN
    IN  IF unknown # {} /\ ~enlarges THEN [raised |-> TRUE, val |-> NoArray]
        ELSE [raised |-> FALSE, val |-> Mat(num_views, Len(columns), cell)]

\* _create_pick_matrix: a frame of zeros with the asset names as columns, then
\* pick_matrix.loc[view_index, assets] = values for each pick specification.
\* With a label that is no column, .loc raises KeyError in the pandas builds
\* that refuse a list holding missing labels, and adds the label as a new
\* column (nan in the rows not assigned) in the builds that enlarge the frame:
\* `enlarges` says which build runs.  [raised, val]: val is the frame's .values.
CreatePickMatrix(num_views, num_assets, pick_list, asset_names, enlarges) ==
    LET unknown == UnknownLabels(pick_list, asset_names)
        columns == SubSeq(asset_names, 1, num_assets) \o SetToSeq(unknown)
        cell(k, j) == IF columns[j] \in DOMAIN pick_list[k] THEN pick_list[k][columns[j]]
                      ELSE IF j <= num_assets THEN Zero ELSE NaN
    IN  IF unknown # {} /\ ~enlarges THEN [raised |-> TRUE, val |-> NoArray]
        ELSE [raised |-> FALSE, val |-> Mat(num_views, Len(columns), cell)]

\* _calculate_idzorek_omega.  np.reshape(view_confidences, (1,
\* covariance.shape[0])) raises ValueError unless there are as many confidences
\* as assets; alpha, a (1, N) array, times the (K, K) array broadcasts alpha
\* along the rows (ValueError unless N = K or one of them is 1).  [raised, val].
CalculateIdzorekOmega(covariance, view_confidences, pick_matrix) ==
    IF Len(view_confidences) # covariance.r \/ pick_matrix.c # covariance.r
    THEN [raised |-> TRUE, val |-> NoArray]
    ELSE LET n == covariance.r
             alpha(j) == RDiv(RSub(One, view_confidences[j]), view_confidences[j])
             m == Dot(Dot(pick_matrix, covariance), Transpose(pick_matrix))
             cell(i, j) == RMul(alpha(IF n = 1 THEN 1 ELSE j),
                                At(m, i, IF m.c = 1 THEN 1 ELSE j))
         IN  IF m.c # n /\ m.c # 1 /\ n # 1
             THEN [raised |-> TRUE, val |-> NoArray]
             ELSE [raised |-> FALSE, val |-> Mat(m.r, IF m.c < n THEN n ELSE m.c, cell)]

\* _calculate_omega without line 160, np.diag(np.diag(omega)).
CalculateOmegaKeepingCovariances(covariance, tau, pick_matrix, view_confidences, omega_method) ==
    IF omega_method = "prior_variance"
    THEN (IF pick_matrix.c # covariance.r THEN [raised |-> TRUE, val |-> NoArray]
          ELSE [raised |-> FALSE,
                val |-> Dot(pick_matrix, Dot(Scale(tau, covariance), Transpose(pick_matrix)))])
    ELSE CalculateIdzorekOmega(covariance, view_confidences, pick_matrix)

\* _calculate_omega: the derived omega with its off-diagonal entries zeroed.
CalculateOmega(covariance, tau, pick_matrix, view_confidences, omega_method) ==
    LET raw == IF omega_method = "prior_variance"
               THEN (IF pick_matrix.c # covariance.r THEN [raised |-> TRUE, val |-> NoArray]
                     ELSE [raised |-> FALSE,
                           val |-> Dot(pick_matrix, Dot(Scale(tau, covariance),
                                                        Transpose(pick_matrix)))])
               ELSE CalculateIdzorekOmega(covariance, view_confidences, pick_matrix)
    IN  IF raw.raised THEN raw ELSE [raised |-> FALSE, val |-> DiagOfDiag(raw.val)]

\* The array both posterior stages invert: P.dot(tau * cov).dot(P.T) + omega.
ViewCovariance(covariance, tau, pick_matrix, omega) ==
    MAdd(Dot(Dot(pick_matrix, Scale(tau, covariance)), Transpose(pick_matrix)), omega)

\* _calculate_posterior_expected_returns, given inv(...) as `inverse`:
\* a (1, N) array.
PosteriorExpectedReturns(implied, covariance, tau, pick_matrix, inverse, investor_views) ==
    Transpose(MAdd(implied,
                   Dot(Dot(Scale(tau, covariance), Transpose(pick_matrix)),
                       Dot(inverse, MSub(investor_views, Dot(pick_matrix, implied))))))

\* _calculate_posterior_covariance, given inv(...) as `inverse`.
PosteriorCovariance(covariance, tau, pick_matrix, inverse) ==
    MSub(MAdd(covariance, Scale(tau, covariance)),
         Dot(Dot(Dot(Dot(Scale(tau, covariance), Transpose(pick_matrix)), inverse),
                 pick_matrix),
             Scale(tau, covariance)))

\* sum(weights) of an (N, 1) array: Python's sum, 0 + row 1 + row 2 ...
SumRows(w) == LET e(i) == At(w, i, 1) IN SumTo(w.r, e)

\* _calculate_max_sharpe_weights, given inv(posterior_covariance) as `inverse`:
\* the raw weights, and the weights divided by their sum.
RawWeights(inverse, posterior_expected_returns) ==
    Dot(inverse, Transpose(posterior_expected_returns))

\* _calculate_max_sharpe_weights with `weights /= len(weights)` on line 74.
MaxSharpeWeightsByCount(inverse, posterior_expected_returns) ==
    LET raw == RawWeights(inverse, posterior_expected_returns)
        cell(i, j) == RDiv(At(raw, i, j), Norm(raw.r, 1))
    IN  Mat(raw.r, raw.c, cell)

MaxSharpeWeights(inverse, posterior_expected_returns) ==
    LET raw == RawWeights(inverse, posterior_expected_returns)
        total == SumRows(raw)
        cell(i, j) == RDiv(At(raw, i, j), total)
    IN  Mat(raw.r, raw.c, cell)

\* ------------------------------------------------------------ the calls
\* The asset universe: the first n countries of main.py.
Countries == <<"AU", "CA", "FR", "DE", "JP", "UK", "US">>

AssetNames(n) == SubSeq(Countries, 1, n)

\* A label that is no asset of any universe.
Unknown == "XX"

Sizes == 1..(IF MaxAssets < Len(Countries) THEN MaxAssets ELSE Len(Countries))

Ones(r, c) == LET o(i, j) == One IN Mat(r, c, o)

\* Covariances: the identity, a positive definite one with correlated assets,
\* and the singular all-ones one.
Covariances(n) == {Eye(n), MAdd(Eye(n), Ones(n, n)), Ones(n, n)}

\* Market weights: equal weights summing to 1, and all zero.
MarketWeights(n) == {[i \in 1..n |-> Norm(1, n)], [i \in 1..n |-> Zero]}

\* View returns: no excess return, and one below every implied return.
ViewReturns == {Zero, Norm(-2, 1)}

\* Views: k views of one and the same return.
Views(k) == {[i \in 1..k |-> q] : q \in ViewReturns}

\* An absolute view on asset a, and a view of a over b.
Absolute(a) == [n \in {a} |-> One]

Relative(a, b) == [n \in {a, b} |-> IF n = a THEN One ELSE RNeg(One)]

\* Pick specifications over a universe: none of its assets, its first asset,
\* its last over its first, and its first over an asset it does not hold.
PickDicts(names) ==
    {<<>>, Absolute(names[1]), Relative(names[Len(names)], names[1]),
     Relative(names[1], Unknown)}

PickLists(k, names) == [1..k -> PickDicts(names)]

\* One absolute view per row, on the assets in turn.
AbsoluteViews(k, names) == [i \in 1..k |-> Absolute(names[((i - 1) % Len(names)) + 1])]

None == [given |-> FALSE, val |-> <<>>]

Given(v) == [given |-> TRUE, val |-> v]

\* omega as the caller supplies it: not at all, k * k ones as a flat list, the
\* (k, k) identity, and a flat list of the wrong length.
Omegas(k) == {[given |-> FALSE, val |-> NoArray],
              Given(Ones(1, k * k)), Given(Eye(k)), Given(Ones(1, k * k + 1))}

OmegaMethods == {"prior_variance", "user_confidences", "idzorek"}

Confidence == {Norm(-1, 2), Zero, Norm(1, 2), One}

\* view_confidences: none, k equal ones, k different ones, and one too many.
ViewConfidences(k) ==
    {None} \cup {Given([i \in 1..k |-> c]) : c \in Confidence}
           \cup {Given([i \in 1..k |-> Norm(1, i + 1)]), Given([i \in 1..k + 1 |-> Norm(1, 2)])}

\* risk_aversion at its default, 2.5; tau = 0.25, which the caller supplies.
RiskAversion == Norm(5, 2)

Tau == Norm(1, 4)

\* The arguments of a call.  The covariance is passed as an array and
\* asset_names is always passed, as main.py passes it, so that lines 22-26 keep
\* it; Mat and SumTo above are the array and sum helpers of numpy.
Call(cov, w, q, picks, om, method, conf, names) ==
    [covariance |-> cov, market_capitalised_weights |-> w, investor_views |-> q,
     pick_list |-> picks, omega |-> om, risk_aversion |-> RiskAversion, tau |-> Tau,
     omega_method |-> method, view_confidences |-> conf, asset_names |-> names]

\* Calls with the default options: every covariance, market weight, view and
\* pick list, with as many pick specifications as views; and one call for each
\* other number of pick specifications.
NumericCalls ==
    UNION {UNION {UNION {
        {Call(cov, w, q, picks, [given |-> FALSE, val |-> NoArray], "prior_variance", None,
              AssetNames(n)) :
            cov \in Covariances(n), w \in MarketWeights(n), q \in Views(kv),
            picks \in IF kp = kv THEN PickLists(kp, AssetNames(n))
                      ELSE {AbsoluteViews(kp, AssetNames(n))}}
        : kp \in 0..MaxViews} : kv \in 0..MaxViews} : n \in Sizes}

\* Calls on one covariance with absolute views, with every option.
OptionCalls ==
    UNION {UNION {UNION {
        {Call(MAdd(Eye(n), Ones(n, n)), [i \in 1..n |-> Norm(1, n)], [i \in 1..kv |-> One],
              AbsoluteViews(kp, AssetNames(n)), om, method, conf, AssetNames(n)) :
            om \in Omegas(kv), method \in OmegaMethods, conf \in ViewConfidences(kv)}
        : kp \in 0..MaxViews} : kv \in 0..MaxViews} : n \in Sizes}

Calls == NumericCalls \cup OptionCalls

\* ------------------------------------------------------------- the state
\* An output field: None, an ndarray, or a DataFrame labelled with the asset
\* names.  `by` records which call assigned it: "none" (__init__), "earlier"
\* (a call before the one the model follows) or "call".
Field(kind, val, columns, by) == [kind |-> kind, val |-> val, columns |-> columns, by |-> by]

Unset == Field("None", NoArray, <<>>, "none")

Array(val) == Field("ndarray", val, <<>>, "call")

Frame(val, columns, by) == Field("DataFrame", val, columns, by)

NoError == [type |-> "none", stage |-> "none"]

Error(type, stage) == [type |-> type, stage |-> stage]

\* A call that succeeded before the one the model follows.
EarlierCall ==
    LET n == CHOOSE n \in Sizes : \A m \in Sizes : m <= n
    IN  Call(Eye(n), [i \in 1..n |-> Norm(1, n)], <<One>>, <<Absolute(AssetNames(n)[1])>>,
             [given |-> FALSE, val |-> NoArray], "prior_variance", None, AssetNames(n))

\* The inverse numpy.linalg.inv returns for an array it does not raise on.
Inverted(A) == (CHOOSE o \in InvOutcomes(A) : ~o.raised).val

\* The four fields a call leaves when every stage of it succeeds: lines 42-51
\* from the implied returns, the pick matrix and omega.
AllocatedFrom(a, by, implied, ret, cov) ==
    [weights |-> Frame(Transpose(MaxSharpeWeights(Inverted(cov), ret)), a.asset_names, by),
     implied_equilibrium_returns |-> Frame(Transpose(implied), a.asset_names, by),
     posterior_expected_returns |-> Frame(ret, a.asset_names, by),
     posterior_covariance |-> Frame(cov, a.asset_names, by)]

AllocatedWith(a, by, implied, p, inverse) ==
    AllocatedFrom(a, by, implied,
                  PosteriorExpectedReturns(implied, a.covariance, a.tau, p, inverse,
                                           Column(a.investor_views)),
                  PosteriorCovariance(a.covariance, a.tau, p, inverse))

AllocatedOmega(a, by, p, om) ==
    AllocatedWith(a, by,
                  ImpliedEquilibriumReturns(a.risk_aversion, a.covariance,
                                            Column(a.market_capitalised_weights)),
                  p, Inverted(ViewCovariance(a.covariance, a.tau, p, om)))

AllocatedPick(a, by, p) ==
    AllocatedOmega(a, by, p,
                   Reshape(IF a.omega.given THEN a.omega.val
                           ELSE CalculateOmega(a.covariance, a.tau, p, a.view_confidences.val,
                                               a.omega_method).val,
                           Len(a.investor_views), Len(a.investor_views)))

Allocated(a, by) ==
    AllocatedPick(a, by, CreatePickMatrix(Len(a.investor_views),
                                          Len(a.market_capitalised_weights), a.pick_list,
                                          a.asset_names, FALSE).val)

VARIABLES
    weights,                      \* self.weights
    implied_equilibrium_returns,  \* self.implied_equilibrium_returns
    posterior_expected_returns,   \* self.posterior_expected_returns
    posterior_covariance,         \* self.posterior_covariance
    pc,                           \* where allocate() stands
    args,                         \* the arguments of the call
    pick_matrix,                  \* allocate's local pick_matrix
    omega,                        \* allocate's local omega, after line 39
    raised,                       \* the exception that ended the call
    before,                       \* the four fields when the call began
    ran                           \* the stages of the call that have run

fields == <<weights, implied_equilibrium_returns, posterior_expected_returns,
            posterior_covariance>>

vars == <<weights, implied_equilibrium_returns, posterior_expected_returns,
          posterior_covariance, pc, args, pick_matrix, omega, raised, before, ran>>

\* __init__, and optionally one earlier successful call.
Init ==
    /\ \E earlier \in BOOLEAN :
          LET f == Allocated(EarlierCall, "earlier")
          IN  /\ weights = IF earlier THEN f.weights ELSE Unset
              /\ implied_equilibrium_returns =
                    IF earlier THEN f.implied_equilibrium_returns ELSE Unset
              /\ posterior_expected_returns =
                    IF earlier THEN f.posterior_expected_returns ELSE Unset
              /\ posterior_covariance = IF earlier THEN f.posterior_covariance ELSE Unset
    /\ pc = "idle"
    /\ args = EarlierCall
    /\ pick_matrix = NoArray
    /\ omega = NoArray
    /\ raised = NoError
    /\ before = fields
    /\ ran = <<>>

NumViews == Len(args.investor_views)

NumAssets == Len(args.market_capitalised_weights)

Raise(type, stage) ==
    /\ pc' = "raised"
    /\ raised' = Error(type, stage)

\* allocate, lines 17-27: _error_checks, then the preprocessing.
Allocate ==
    /\ pc = "idle"
    /\ \E a \in Calls :
          /\ args' = a
          /\ IF ErrorChecks(a.investor_views, a.pick_list, a.omega_method,
                            a.view_confidences) # "ok"
             THEN Raise("ValueError", "validation")
             ELSE pc' = "implied" /\ raised' = NoError
    /\ before' = fields
    /\ ran' = <<>>
    /\ UNCHANGED <<fields, pick_matrix, omega>>

\* allocate, line 30.
StepImplied ==
    /\ pc = "implied"
    /\ implied_equilibrium_returns' =
          Array(ImpliedEquilibriumReturns(args.risk_aversion, args.covariance,
                                          Column(args.market_capitalised_weights)))
    /\ pc' = "pick"
    /\ ran' = Append(ran, "implied")
    /\ UNCHANGED <<weights, posterior_expected_returns, posterior_covariance, args,
                   pick_matrix, omega, raised, before>>

\* allocate, line 33, under either pandas build.
StepPickMatrix ==
    /\ pc = "pick"
    /\ \E enlarges \in BOOLEAN :
          LET p == CreatePickMatrix(NumViews, NumAssets, args.pick_list, args.asset_names,
                                    enlarges)
          IN  IF p.raised
              THEN Raise("KeyError", "pick") /\ UNCHANGED pick_matrix
              ELSE pick_matrix' = p.val /\ pc' = "omega" /\ UNCHANGED raised
    /\ ran' = Append(ran, "pick")
    /\ UNCHANGED <<fields, args, omega, before>>

\* allocate without the test of line 37: omega is derived even when supplied.
StepOmegaAlwaysDerived ==
    /\ pc = "omega"
    /\ LET om == CalculateOmega(args.covariance, args.tau, pick_matrix,
                                args.view_confidences.val, args.omega_method)
       IN  IF om.raised \/ om.val.r * om.val.c # NumViews * NumViews
           THEN Raise("ValueError", "omega") /\ UNCHANGED omega
           ELSE /\ omega' = Reshape(om.val, NumViews, NumViews)
                /\ pc' = "posterior_returns"
                /\ UNCHANGED raised
    /\ ran' = Append(ran, "omega")
    /\ UNCHANGED <<fields, args, pick_matrix, before>>

\* allocate, lines 37-39: omega derived unless supplied, then reshaped to
\* (num_views, num_views), which raises ValueError for any other size.
StepOmega ==
    /\ pc = "omega"
    /\ LET om == IF args.omega.given THEN [raised |-> FALSE, val |-> args.omega.val]
                 ELSE CalculateOmega(args.covariance, args.tau, pick_matrix,
                                     args.view_confidences.val, args.omega_method)
       IN  IF om.raised \/ om.val.r * om.val.c # NumViews * NumViews
           THEN Raise("ValueError", "omega") /\ UNCHANGED omega
           ELSE /\ omega' = Reshape(om.val, NumViews, NumViews)
                /\ pc' = "posterior_returns"
                /\ UNCHANGED raised
    /\ ran' = Append(ran, IF args.omega.given THEN "reshape" ELSE "omega")
    /\ UNCHANGED <<fields, args, pick_matrix, before>>

\* allocate, line 42.
StepPosteriorReturns ==
    /\ pc = "posterior_returns"
    /\ IF pick_matrix.c # args.covariance.r
       THEN Raise("ValueError", "posterior_returns") /\ UNCHANGED posterior_expected_returns
       ELSE \E o \in InvOutcomes(ViewCovariance(args.covariance, args.tau, pick_matrix, omega)) :
               IF o.raised
               THEN Raise("LinAlgError", "posterior_returns")
                    /\ UNCHANGED posterior_expected_returns
               ELSE /\ posterior_expected_returns' =
                          Array(PosteriorExpectedReturns(implied_equilibrium_returns.val,
                                    args.covariance, args.tau, pick_matrix, o.val,
                                    Column(args.investor_views)))
                    /\ pc' = "posterior_covariance"
                    /\ UNCHANGED raised
    /\ ran' = Append(ran, "posterior_returns")
    /\ UNCHANGED <<weights, implied_equilibrium_returns, posterior_covariance, args,
                   pick_matrix, omega, before>>

\* allocate, line 45: the same array inverted again, as it was on line 42.
StepPosteriorCovariance ==
    /\ pc = "posterior_covariance"
    /\ \E o \in InvOutcomes(ViewCovariance(args.covariance, args.tau, pick_matrix, omega)) :
          /\ ~o.raised
          /\ posterior_covariance' =
                Array(PosteriorCovariance(args.covariance, args.tau, pick_matrix, o.val))
    /\ pc' = "weights"
    /\ ran' = Append(ran, "posterior_covariance")
    /\ UNCHANGED <<weights, implied_equilibrium_returns, posterior_expected_returns, args,
                   pick_matrix, omega, raised, before>>

\* allocate, line 48.
StepWeights ==
    /\ pc = "weights"
    /\ \E o \in InvOutcomes(posterior_covariance.val) :
          IF o.raised
          THEN Raise("LinAlgError", "weights") /\ UNCHANGED weights
          ELSE /\ weights' = Array(MaxSharpeWeights(o.val, posterior_expected_returns.val))
               /\ pc' = "post_processing"
               /\ UNCHANGED raised
    /\ ran' = Append(ran, "weights")
    /\ UNCHANGED <<implied_equilibrium_returns, posterior_expected_returns,
                   posterior_covariance, args, pick_matrix, omega, before>>

\* allocate, line 51: _post_processing labels the four fields.
StepPostProcessing ==
    /\ pc = "post_processing"
    /\ weights' = Frame(Transpose(weights.val), args.asset_names, "call")
    /\ implied_equilibrium_returns' =
          Frame(Transpose(implied_equilibrium_returns.val), args.asset_names, "call")
    /\ posterior_expected_returns' =
          Frame(posterior_expected_returns.val, args.asset_names, "call")
    /\ posterior_covariance' = Frame(posterior_covariance.val, args.asset_names, "call")
    /\ pc' = "returned"
    /\ ran' = Append(ran, "post_processing")
    /\ UNCHANGED <<args, pick_matrix, omega, raised, before>>

Next ==
    \/ Allocate
    \/ StepImplied
    \/ StepPickMatrix
    \/ StepOmega
    \/ StepPosteriorReturns
    \/ StepPosteriorCovariance
    \/ StepWeights
    \/ StepPostProcessing

Spec == Init /\ [][Next]_vars

\* ------------------------------------------------------------ the claims
Started == pc # "idle"

Ended == pc \in {"raised", "returned"}

Ran(stage) == \E i \in 1..Len(ran) : ran[i] = stage

\* The local omega holds what lines 37-39 left in it.
OmegaBuilt == pc \in {"posterior_returns", "posterior_covariance", "weights",
                      "post_processing", "returned"}
              \/ (pc = "raised" /\ raised.stage \in {"posterior_returns", "weights"})

OffDiagonalZero(A) == \A i \in 1..A.r : \A j \in 1..A.c : i # j => At(A, i, j) = Zero

\* A configuration error, as the specification lists them.
ConfigurationError(a) ==
    \/ Len(a.investor_views) # Len(a.pick_list)
    \/ a.omega_method \notin {"prior_variance", "user_confidences"}
    \/ /\ a.omega_method = "user_confidences"
       /\ \/ ~a.view_confidences.given
          \/ Len(a.view_confidences.val) # Len(a.investor_views)
          \/ \E k \in 1..Len(a.view_confidences.val) : a.view_confidences.val[k][1] < 0

\* C1: a call with a configuration error fails with a validation error before
\* any stage of the pipeline has run, and the four output fields keep the
\* values they had when the call began.
C1_ConfigurationErrorsFailFirst ==
    (Started /\ ConfigurationError(args)) =>
        /\ pc = "raised"
        /\ raised = Error("ValueError", "validation")
        /\ ran = <<>>
        /\ fields = before

\* A call with a negative confidence was rejected on an instance that holds
\* the labelled results of an earlier call.
C1_Witness ==
    /\ pc = "raised"
    /\ raised.stage = "validation"
    /\ args.omega_method = "user_confidences"
    /\ args.view_confidences.given
    /\ Len(args.view_confidences.val) = NumViews
    /\ NumViews = Len(args.pick_list)
    /\ NumViews > 0
    /\ weights.kind = "DataFrame"
    /\ weights.by = "earlier"

\* A call in user-confidence mode that derives omega, with as many confidences
\* as views, each in (0, 1].
UserConfidenceCall ==
    /\ Started
    /\ NumViews >= 1
    /\ args.omega_method = "user_confidences"
    /\ ~args.omega.given
    /\ args.view_confidences.given
    /\ Len(args.view_confidences.val) = NumViews
    /\ Len(args.pick_list) = NumViews
    /\ \A k \in 1..NumViews : /\ args.view_confidences.val[k][1] > 0
                              /\ args.view_confidences.val[k][1] <= args.view_confidences.val[k][2]

\* ((1 - c_k) / c_k) times the k-th diagonal entry of P.Sigma.P^T.
IdzorekEntry(k) ==
    RMul(RDiv(RSub(One, args.view_confidences.val[k]), args.view_confidences.val[k]),
         At(Dot(Dot(pick_matrix, args.covariance), Transpose(pick_matrix)), k, k))

\* C2: in user-confidence mode with K views over N assets, whatever K and N,
\* and confidences in (0, 1], the derivation of omega succeeds and omega is
\* the K x K diagonal array with ((1 - c_k) / c_k) (P.Sigma.P^T)[k, k] on its
\* diagonal.
C2_IdzorekOmegaForEveryKAndN ==
    (UserConfidenceCall /\ Ran("omega")) =>
        /\ ~(pc = "raised" /\ raised.stage = "omega")
        /\ omega.r = NumViews
        /\ omega.c = NumViews
        /\ \A i \in 1..NumViews : \A j \in 1..NumViews :
              At(omega, i, j) = IF i = j THEN IdzorekEntry(i) ELSE Zero

\* C3: a pick specification that names an asset outside the universe makes the
\* call fail with a lookup error in the pick-matrix stage; no pick matrix is
\* produced for the later stages.
C3_UnknownAssetIsALookupError ==
    (Ran("pick") /\ UnknownLabels(args.pick_list, args.asset_names) # {}) =>
        /\ pc = "raised"
        /\ raised = Error("KeyError", "pick")
        /\ pick_matrix = NoArray

\* C4: when every asset a pick specification names is in the universe, the
\* pick matrix is K x N, holds each coefficient of the k-th specification in
\* row k at the column of its asset, and is zero everywhere else.
C4_PickMatrixPlacesCoefficients ==
    (Ran("pick") /\ UnknownLabels(args.pick_list, args.asset_names) = {}) =>
        /\ pc # "raised" \/ raised.stage # "pick"
        /\ pick_matrix.r = NumViews
        /\ pick_matrix.c = NumAssets
        /\ \A k \in 1..NumViews :
              /\ \A name \in DOMAIN args.pick_list[k] :
                    At(pick_matrix, k, IndexOf(args.asset_names, name)) = args.pick_list[k][name]
              /\ \A j \in 1..NumAssets :
                    args.asset_names[j] \notin DOMAIN args.pick_list[k]
                        => At(pick_matrix, k, j) = Zero

\* Two views over two assets, the second of one asset over the other: rows and
\* columns both matter.
C4_Witness ==
    /\ pc = "omega"
    /\ NumViews = 2
    /\ NumAssets = 2
    /\ args.pick_list[1] = Absolute(args.asset_names[1])
    /\ args.pick_list[2] = Relative(args.asset_names[2], args.asset_names[1])
    /\ pick_matrix.a = <<(<<One, Zero>>), (<<RNeg(One), One>>)>>

WithDefaultOptions(a) ==
    [a EXCEPT !.omega_method = "prior_variance", !.view_confidences = None]

SameResults(f) ==
    /\ weights = f.weights
    /\ implied_equilibrium_returns = f.implied_equilibrium_returns
    /\ posterior_expected_returns = f.posterior_expected_returns
    /\ posterior_covariance = f.posterior_covariance

\* C6: with omega supplied the derivation is not run, the supplied values
\* reshaped to K x K are the omega used, and omega_method and
\* view_confidences do not change the outcome: a call that the default
\* options would let through validation is let through, and its results are
\* those of the call with the default options.
C6_SuppliedOmegaIgnoresOptions ==
    (Started /\ args.omega.given) =>
        /\ ~Ran("omega")
        /\ OmegaBuilt => omega = Reshape(args.omega.val, NumViews, NumViews)
        /\ Len(args.investor_views) = Len(args.pick_list) => raised.stage # "validation"
        /\ pc = "returned" => SameResults(Allocated(WithDefaultOptions(args), "call"))

\* C6, amended: with omega supplied, validation still checks omega_method and
\* view_confidences; in a call that passes it the derivation is not run, the
\* supplied values reshaped to K x K are the omega used, and the results are
\* those of the call with the default options.
C6_SuppliedOmegaAfterValidation ==
    (Started /\ args.omega.given /\ raised.stage # "validation") =>
        /\ ~Ran("omega")
        /\ OmegaBuilt => omega = Reshape(args.omega.val, NumViews, NumViews)
        /\ pc = "returned" => SameResults(Allocated(WithDefaultOptions(args), "call"))

\* A call in user-confidence mode returned with the omega it was given, a flat
\* list of ones.
C6_Witness ==
    /\ pc = "returned"
    /\ args.omega.given
    /\ args.omega_method = "user_confidences"
    /\ args.view_confidences.given
    /\ NumViews = 2
    /\ omega = Ones(2, 2)

\* The sum of the entries of the weights field, a (1, N) frame.
WeightSum == LET e(j) == At(weights.val, 1, j) IN SumTo(weights.val.c, e)

\* sum(raw) of line 74, from the posterior fields of a call that returned.
RawSum == SumRows(RawWeights(Inverted(posterior_covariance.val),
                             posterior_expected_returns.val))

\* C7: after every successful call the weights sum to 1.
C7_WeightsSumToOne == pc = "returned" => WeightSum = One

\* C7, amended: after every successful call in which sum(raw) is a finite
\* number other than zero, the weights sum to 1; when sum(raw) is zero, inf or
\* nan the division leaves inf or nan in the weights and the call still
\* returns.
C7_WeightsSumToOneWhenNormalisable ==
    pc = "returned" =>
        IF IsFinite(RawSum) /\ ~IsZero(RawSum) THEN WeightSum = One
        ELSE \E j \in 1..weights.val.c : ~IsFinite(At(weights.val, 1, j))

\* A call returned weights of both signs.
C7_Witness ==
    /\ pc = "returned"
    /\ \E j \in 1..NumAssets : At(weights.val, 1, j)[1] < 0
    /\ \E j \in 1..NumAssets : At(weights.val, 1, j)[1] > 0
    /\ AllFinite(weights.val)
    /\ WeightSum = One

\* A call in user-confidence mode whose confidences pass for valid but for a
\* zero among them.
ZeroConfidenceCall ==
    /\ Started
    /\ args.omega_method = "user_confidences"
    /\ args.view_confidences.given
    /\ Len(args.view_confidences.val) = NumViews
    /\ Len(args.pick_list) = NumViews
    /\ \A k \in 1..NumViews : args.view_confidences.val[k][1] >= 0
    /\ \E k \in 1..NumViews : args.view_confidences.val[k] = Zero

NoViewsCall ==
    /\ Started
    /\ NumViews = 0
    /\ Len(args.pick_list) = 0
    /\ ~ConfigurationError(args)
    /\ args.omega.given => args.omega.val.r * args.omega.val.c = 0

\* C9: a call with no views succeeds, with posterior returns equal to the
\* implied equilibrium returns and posterior covariance Sigma + tau Sigma.
C9_NoViewsKeepsThePrior ==
    (NoViewsCall /\ Ended) =>
        /\ pc = "returned"
        /\ posterior_expected_returns.val = implied_equilibrium_returns.val
        /\ posterior_covariance.val = MAdd(args.covariance, Scale(args.tau, args.covariance))

AllUnset == \A i \in 1..4 : fields[i].kind = "None"

AllOfOneCall == /\ \A i \in 1..4 : fields[i].kind = "DataFrame"
                /\ \A i \in 1..4 : fields[i].by = fields[1].by

\* C10: between calls the four fields are all unset or all hold the labelled
\* results of one successful call, whatever stage a call failed in.
C10_FieldsOfOneCall == (pc = "idle" \/ Ended) => (AllUnset \/ AllOfOneCall)

====
